---------------------------- MODULE Spec2Model ----------------------------
(***************************************************************************)
(* A model of scripts/prepare.py, the release preparation script of loq.   *)
(*                                                                         *)
(* Texts (version strings, file contents) are sequences of one-character   *)
(* strings, so that the regular expressions of the script are modelled     *)
(* character by character.  Offsets into a text are Python's: 0-based,     *)
(* text[a:b] is Slice(text, a, b).                                         *)
(***************************************************************************)
EXTENDS Integers, Sequences, FiniteSets, TLC

\* The character U+0060, which cannot be written inside a TLA+ string.
Backtick == "BACKTICK"

\* Python's None, and an Optional value that is present.
None == << >>

Digits == {"0", "1", "2", "3", "4", "5", "6", "7", "8", "9"}

\* The characters \s matches (and str.strip removes) among those of the model.
Whitespace == {" ", "\t", "\n", "\r"}

--------------------------------------------------------------------------
(* Python string primitives, on 0-based offsets. *)

Min(S) == CHOOSE x \in S : \A y \in S : x <= y

\* text[a:b]
Slice(text, a, b) == SubSeq(text, a + 1, b)

\* text[a:]
SliceFrom(text, a) == SubSeq(text, a + 1, Len(text))

\* text[k]
At(text, k) == text[k + 1]

\* text.startswith(lit, k)
StartsWithAt(text, k, lit) ==
  /\ k + Len(lit) <= Len(text)
  /\ Slice(text, k, k + Len(lit)) = lit

\* lit in text
Contains(text, lit) == \E k \in 0..(Len(text) - Len(lit)) : StartsWithAt(text, k, lit)

\* The offset just past the longest run of characters of `chars` that starts at k:
\* where a greedy [chars]+ ends when what follows it cannot match a character of the set.
SkipIn(text, k, chars) ==
  IF k >= Len(text) THEN k
  ELSE Min({j \in k..Len(text) : j = Len(text) \/ At(text, j) \notin chars})

\* The same for a negated class [^chars]+.
SkipNotIn(text, k, chars) ==
  IF k >= Len(text) THEN k
  ELSE Min({j \in k..Len(text) : j = Len(text) \/ At(text, j) \in chars})

\* ^ under re.MULTILINE: at the start of the text or just after a newline.
CaretM(text, k) == k = 0 \/ At(text, k - 1) = "\n"

\* $ under re.MULTILINE: at the end of the text or just before a newline.
DollarM(text, k) == k = Len(text) \/ At(text, k) = "\n"

\* $ without re.MULTILINE: at the end of the text, or just before a newline that
\* is the last character of the text.
Dollar(text, k) == k = Len(text) \/ (k = Len(text) - 1 /\ At(text, k) = "\n")

\* "".join(parts)
RECURSIVE Concat(_)
Concat(parts) == IF parts = << >> THEN << >> ELSE Head(parts) \o Concat(Tail(parts))

\* int(digits), for a non-empty run of ASCII digits
DigitValue(c) == CHOOSE n \in 0..9 : <<"0", "1", "2", "3", "4", "5", "6", "7", "8", "9">>[n + 1] = c

RECURSIVE StrToInt(_)
StrToInt(digits) ==
  IF digits = << >> THEN 0
  ELSE 10 * StrToInt(SubSeq(digits, 1, Len(digits) - 1)) + DigitValue(digits[Len(digits)])

\* str(n) of a non-negative int, as an f-string formats it
RECURSIVE IntToStr(_)
IntToStr(n) ==
  LET d == <<"0", "1", "2", "3", "4", "5", "6", "7", "8", "9">>[(n % 10) + 1]
  IN IF n < 10 THEN <<d>> ELSE IntToStr(n \div 10) \o <<d>>

--------------------------------------------------------------------------
(* The version parser. *)

\* \d+\.\d+\.\d+ matched at offset k: the offset where the match ends, or -1.
\* Each \d+ is followed by a literal that is no digit, so it takes the whole run.
MatchBase(version, k) ==
  LET a == SkipIn(version, k, Digits)
      b == SkipIn(version, a + 1, Digits)
      c == SkipIn(version, b + 1, Digits)
  IN IF /\ a > k /\ StartsWithAt(version, a, <<".">>)
        /\ b > a + 1 /\ StartsWithAt(version, b, <<".">>)
        /\ c > b + 1
     THEN c ELSE -1

\* (a|b|rc) matched at offset k: the marker, or None.
MatchMarker(version, k) ==
  IF StartsWithAt(version, k, <<"a">>) THEN <<"a">>
  ELSE IF StartsWithAt(version, k, <<"b">>) THEN <<"b">>
  ELSE IF StartsWithAt(version, k, <<"r", "c">>) THEN <<"r", "c">>
  ELSE None

\* parse_pep440(version) -> (base, prerelease_type, prerelease_num); an Optional
\* is None or a one-element tuple.
parse_pep440(version) ==
  LET e == MatchBase(version, 0)
      marker == IF e < 0 THEN None ELSE MatchMarker(version, e)
      n == e + Len(marker)
      d == SkipIn(version, n, Digits)
  IN IF e >= 0 /\ marker # None /\ d > n /\ Dollar(version, d)
     THEN <<Slice(version, 0, e), <<marker>>, <<StrToInt(Slice(version, n, d))>>>>
     ELSE IF e >= 0 /\ Dollar(version, e)
     THEN <<Slice(version, 0, e), None, None>>
     ELSE <<<<>>, None, None>>

\* A conversion that keeps PEP 440's marker instead of looking up its dashed name.
type_map_unmapped(pre_type) == pre_type

\* type_map[pre_type]
type_map(pre_type) ==
  IF pre_type = <<"a">> THEN <<"a", "l", "p", "h", "a">>
  ELSE IF pre_type = <<"b">> THEN <<"b", "e", "t", "a">>
  ELSE <<"r", "c">>

\* pep440_to_semver(version)
pep440_to_semver(version) ==
  LET parsed == parse_pep440(version)
      base == parsed[1]
      pre_type == parsed[2]
      pre_num == parsed[3]
  IN IF base = <<>> THEN <<>>
     ELSE IF pre_type = None THEN base
     ELSE base \o <<"-">> \o type_map(pre_type[1]) \o <<".">> \o IntToStr(pre_num[1])

--------------------------------------------------------------------------
(* Files.  A file is the sequence of its bytes; the script reads and writes *)
(* it in text mode.                                                         *)

\* Path.read_text(): text mode with universal newlines, which turns every
\* "\r\n" and every lone "\r" of the file into "\n".
RECURSIVE read_text(_)
read_text(bytes) ==
  LET crs == {k \in 0..(Len(bytes) - 1) : At(bytes, k) = "\r"}
  IN IF crs = {} THEN bytes
     ELSE
       LET k == Min(crs)
           after == IF StartsWithAt(bytes, k, <<"\r", "\n">>) THEN k + 2 ELSE k + 1
       IN Slice(bytes, 0, k) \o <<"\n">> \o read_text(SliceFrom(bytes, after))

\* Path.write_text(text): text mode on POSIX (the script's shebang line), where
\* "\n" is written as it is.
write_text(text) == text

--------------------------------------------------------------------------
(* The section-scoped locator. *)

\* re.search(pattern, text, re.MULTILINE) for "^" + re.escape("[section]") + "$":
\* the offsets where the header matches.
HeaderMatches(content, section) ==
  LET header == <<"[">> \o section \o <<"]">>
  IN {k \in 0..Len(content) :
        /\ CaretM(content, k)
        /\ StartsWithAt(content, k, header)
        /\ DollarM(content, k + Len(header))}

\* re.search(r"^\[", rest, re.MULTILINE): the offsets in rest where it matches.
NextSectionMatches(rest) ==
  {k \in 0..Len(rest) : CaretM(rest, k) /\ StartsWithAt(rest, k, <<"[">>)}

VersionKey == <<"v", "e", "r", "s", "i", "o", "n", " ", "=", " ", "\"">>

\* ^version = "([^"]+)" matched at offset k of section_content: the offset where
\* group 1 ends, or -1.  [^"]+ runs to the next quote, newlines included.
MatchVersionAt(section_content, k) ==
  LET q == k + Len(VersionKey)
      e == SkipNotIn(section_content, q, {"\""})
  IN IF /\ CaretM(section_content, k)
        /\ StartsWithAt(section_content, k, VersionKey)
        /\ e > q
        /\ StartsWithAt(section_content, e, <<"\"">>)
     THEN e ELSE -1

\* find_version_in_section(content, section) -> (version, start_pos, end_pos) | None
find_version_in_section(content, section) ==
  LET headers == HeaderMatches(content, section)
  IN IF headers = {} THEN None
     ELSE
       LET section_start == Min(headers) + Len(section) + 2
           rest == SliceFrom(content, section_start)
           nexts == NextSectionMatches(rest)
           section_end == IF nexts # {} THEN section_start + Min(nexts) ELSE Len(content)
           section_content == Slice(content, section_start, section_end)
           matches == {k \in 0..Len(section_content) :
                         MatchVersionAt(section_content, k) >= 0}
       IN IF matches = {} THEN None
          ELSE
            LET k == Min(matches)
                g1start == k + Len(VersionKey)
                g1end == MatchVersionAt(section_content, k)
                version == Slice(section_content, g1start, g1end)
                abs_start == section_start + g1start - 1
                abs_end == section_start + g1end + 1
            IN <<version, abs_start, abs_end>>

\* f'"{version}"'
Quoted(version) == <<"\"">> \o version \o <<"\"">>

\* content[:start] + f'"{version}"' + content[end:]
ReplaceValue(content, start, end, version) ==
  Slice(content, 0, start) \o Quoted(version) \o SliceFrom(content, end)

--------------------------------------------------------------------------
(* The dependency-reference updater. *)

\* (loq_(?:core|fs) = \{ path = "[^"]+", version = )"[^"]+" matched at offset k:
\* <<end of group 1, end of the match>>, or None.
MatchDepAt(content, k) ==
  LET name == IF StartsWithAt(content, k, <<"l", "o", "q", "_", "c", "o", "r", "e">>) THEN k + 8
              ELSE IF StartsWithAt(content, k, <<"l", "o", "q", "_", "f", "s">>) THEN k + 6
              ELSE -1
      p0 == name + Len(<<" ", "=", " ", "{", " ", "p", "a", "t", "h", " ", "=", " ", "\"">>)
      p1 == SkipNotIn(content, p0, {"\""})
      g1end == p1 + Len(<<"\"", ",", " ", "v", "e", "r", "s", "i", "o", "n", " ", "=", " ">>)
      v0 == g1end + 1
      v1 == SkipNotIn(content, v0, {"\""})
  IN IF /\ name >= 0
        /\ StartsWithAt(content, name, <<" ", "=", " ", "{", " ", "p", "a", "t", "h", " ", "=",
                  " ", "\"">>)
        /\ p1 > p0
        /\ StartsWithAt(content, p1, <<"\"", ",", " ", "v", "e", "r", "s", "i", "o", "n", " ", "=",
                  " ">>)
        /\ StartsWithAt(content, g1end, <<"\"">>)
        /\ v1 > v0
        /\ StartsWithAt(content, v1, <<"\"">>)
     THEN <<g1end, v1 + 1>> ELSE None

\* re.subn(pattern, rf'\1"{semver}"', content) from offset k on: the matches are
\* taken left to right and do not overlap.  Returns <<new text, count>>.
RECURSIVE DepsSubnFrom(_, _, _)
DepsSubnFrom(content, k, version) ==
  LET matches == {j \in k..Len(content) : MatchDepAt(content, j) # None}
  IN IF matches = {} THEN <<SliceFrom(content, k), 0>>
     ELSE
       LET j == Min(matches)
           m == MatchDepAt(content, j)
           tail == DepsSubnFrom(content, m[2], version)
       IN <<Slice(content, k, m[1]) \o Quoted(version) \o tail[1], tail[2] + 1>>

DepsSubn(content, version) == DepsSubnFrom(content, 0, version)

--------------------------------------------------------------------------
(* The documentation pin updater. *)

RepoMarker == <<"r", "e", "p", "o", ":", " ", "h", "t", "t", "p", "s", ":", "/", "/", "g", "i",
          "t", "h", "u", "b", ".", "c", "o", "m", "/", "j", "a", "k", "e", "k", "a", "p", "l", "a", "n", "/", "l", "o", "q">>

\* content.split("\n")
RECURSIVE Split(_)
Split(content) ==
  LET nls == {k \in 0..(Len(content) - 1) : At(content, k) = "\n"}
  IN IF nls = {} THEN <<content>>
     ELSE <<Slice(content, 0, Min(nls))>> \o Split(SliceFrom(content, Min(nls) + 1))

\* "\n".join(lines)
RECURSIVE Join(_)
Join(lines) ==
  IF Len(lines) = 0 THEN << >>
  ELSE IF Len(lines) = 1 THEN lines[1]
  ELSE lines[1] \o <<"\n">> \o Join(Tail(lines))

\* line.strip()
Strip(line) ==
  LET keep == {k \in 0..(Len(line) - 1) : At(line, k) \notin Whitespace}
  IN IF keep = {} THEN << >>
     ELSE Slice(line, Min(keep), (CHOOSE x \in keep : \A y \in keep : y <= x) + 1)

\* rev: v[^\s]+ matched at offset k of line: the end of the match, or -1.
MatchRevAt(line, k) ==
  LET e == SkipNotIn(line, k + Len(<<"r", "e", "v", ":", " ", "v">>), Whitespace)
  IN IF StartsWithAt(line, k, <<"r", "e", "v", ":", " ", "v">>) /\ e > k + Len(<<"r", "e", "v",
            ":", " ", "v">>) THEN e ELSE -1

\* re.sub(r"rev: v[^\s]+", f"rev: v{semver}", line) from offset k on
RECURSIVE RevSubFrom(_, _, _)
RevSubFrom(line, k, version) ==
  LET matches == {j \in k..Len(line) : MatchRevAt(line, j) >= 0}
  IN IF matches = {} THEN SliceFrom(line, k)
     ELSE
       LET j == Min(matches)
       IN Slice(line, k, j) \o <<"r", "e", "v", ":", " ", "v">> \o version
            \o RevSubFrom(line, MatchRevAt(line, j), version)

RevSub(line, version) == RevSubFrom(line, 0, version)

\* The bound of the inner loop: range(i + 1, min(i + 5, len(lines))).
ScanLimit == 5

\* The loops of update_readme over lines (0-based, as enumerate gives them):
\* <<found, lines after the substitution>>.
ScanReadme(lines, version) ==
  LET At0(j) == lines[j + 1]
      markers == {i \in 0..(Len(lines) - 1) : Contains(At0(i), RepoMarker)}
  IN IF markers = {} THEN <<FALSE, lines>>
     ELSE
       LET i == Min(markers)
           last == (IF i + ScanLimit < Len(lines) THEN i + ScanLimit ELSE Len(lines)) - 1
           \* the lines at which the inner loop breaks
           breaks == {j \in (i + 1)..last :
                        \/ Contains(At0(j), <<"r", "e", "v", ":">>)
                        \/ Contains(At0(j), <<"r", "e", "p", "o", ":">>)
                        \/ Strip(At0(j)) = <<Backtick, Backtick, Backtick>>}
       IN IF breaks = {} THEN <<FALSE, lines>>
          ELSE
            LET j == Min(breaks)
            IN IF Contains(At0(j), <<"r", "e", "v", ":">>)
               THEN <<TRUE, [lines EXCEPT ![j + 1] = RevSub(At0(j), version)]>>
               ELSE <<FALSE, lines>>

--------------------------------------------------------------------------
(* The state of one working copy and of the runs of the script in it. *)

VARIABLES
  argv,            \* sys.argv[1:], the arguments of the script
  pc,              \* where main is: "start", the step about to run, or "exited"
  exitCode,        \* the exit status of the run, Running until it ends
  runNo,           \* the number of the run in this working copy
  trace,           \* the steps this run has executed, each with its outcome
  pep440_version,  \* main's pep440_version
  parsed,          \* what parse_pep440 returned to pep440_to_semver
  semver,          \* validate_version's semver
  branch,          \* main's branch
  content,         \* the text the last mutator read
  result,          \* the last mutator's find_version_in_section result
  count,           \* update_crate_deps' count
  found,           \* update_readme's found
  fs,              \* the bytes of the files of the working copy
  git              \* the repository, the remote and the code host

vars == <<argv, pc, exitCode, runNo, trace, pep440_version, parsed, semver, branch,
          content, result, count, found, fs, git>>

locals == <<parsed, semver, branch, content, result, count, found>>

Running == -1

VERSION_FILES ==
  {"Cargo.toml", "Cargo.lock", "crates/loq_cli/Cargo.toml", "crates/loq_fs/Cargo.toml",
   "pyproject.toml", "README.md"}

\* The return codes of an external command: success and failure.
ReturnCodes == {0, 1}

\* A run() that does not look at the return code.
RunExitsNever(returncode) == FALSE

\* run(cmd): whether it ends the process, given the command's return code.
RunExits(returncode) == returncode # 0

\* f"prep-{pep440_version}"
PrepName(version) == <<"p", "r", "e", "p", "-">> \o version

\* git status --porcelain prints something when the working copy differs from the
\* last commit or holds files git does not know.
StatusOutput == IF fs # git.tree \/ git.untracked THEN <<"?", "?", " ", "c", "h", "a", "n", "g",
          "e", "s">> ELSE <<>>

\* A git checkout -b that does not mind an existing branch name.
CheckoutCodesAnyName(name) == ReturnCodes

\* git checkout -b refuses a branch name that exists; otherwise it may succeed or fail.
CheckoutCodes(name) == IF name \in git.branches THEN {1} ELSE ReturnCodes

\* git commit refuses when nothing is staged; otherwise it may succeed or fail.
CommitCodes == IF git.index = git.tree THEN {1} ELSE ReturnCodes

\* What cargo update can leave in Cargo.lock: the old lock, or one refreshed for
\* the manifests' version.
LockOutcomes == {fs["Cargo.lock"], <<"#", " ", "l", "o", "c", "k", " ">> \o semver \o <<"\n">>}

\* One step of main has run with outcome ok; exits says whether it called sys.exit(1).
Step(name, ok, exits, next) ==
  /\ trace' = Append(trace, [step |-> name, ok |-> ok])
  /\ IF exits
     THEN pc' = "exited" /\ exitCode' = 1
     ELSE pc' = next /\ UNCHANGED exitCode

--------------------------------------------------------------------------
(* main, step by step. *)

\* The argument check and pep440_version = sys.argv[1].
main_start ==
  /\ pc = "start"
  /\ IF Len(argv) # 1
     THEN pc' = "exited" /\ exitCode' = 1 /\ UNCHANGED pep440_version
     ELSE pc' = "check_working_tree" /\ pep440_version' = argv[1] /\ UNCHANGED exitCode
  /\ UNCHANGED <<argv, runNo, trace, locals, fs, git>>

check_working_tree ==
  /\ pc = "check_working_tree"
  /\ \E returncode \in ReturnCodes :
       LET status == IF returncode = 0 THEN StatusOutput ELSE <<>>
       IN Step("check_working_tree", returncode = 0 /\ status = <<>>,
               RunExits(returncode) \/ status # <<>>, "validate_version")
  /\ UNCHANGED <<argv, runNo, pep440_version, locals, fs, git>>

validate_version ==
  /\ pc = "validate_version"
  /\ parsed' = parse_pep440(pep440_version)
  /\ semver' = pep440_to_semver(pep440_version)
  /\ Step("validate_version", semver' # <<>>, semver' = <<>>, "git checkout -b")
  /\ UNCHANGED <<argv, runNo, pep440_version, branch, content, result, count, found, fs, git>>

create_branch ==
  /\ pc = "git checkout -b"
  /\ branch' = PrepName(pep440_version)
  /\ \E returncode \in CheckoutCodes(branch') :
       /\ Step("git checkout -b", returncode = 0, RunExits(returncode), "update_cargo_toml")
       /\ git' = IF returncode = 0
                 THEN [git EXCEPT !.branches = @ \cup {branch'}, !.head = branch']
                 ELSE git
  /\ UNCHANGED <<argv, runNo, pep440_version, parsed, semver, content, result, count, found, fs>>

\* A section mutator that opens its file for writing before the lookup, and so
\* leaves it empty when the lookup fails.
UpdateSectionTruncating(name, path, section, version, next) ==
  /\ pc = name
  /\ content' = read_text(fs[path])
  /\ result' = find_version_in_section(content', section)
  /\ Step(name, result' # None, result' = None, next)
  /\ fs' = [fs EXCEPT ![path] =
              IF result' = None THEN <<>>
              ELSE write_text(ReplaceValue(content', result'[2], result'[3], version))]
  /\ UNCHANGED <<argv, runNo, pep440_version, parsed, semver, branch, count, found, git>>

\* The body shared by update_cargo_toml and update_pyproject.
UpdateSection(name, path, section, version, next) ==
  /\ pc = name
  /\ content' = read_text(fs[path])
  /\ result' = find_version_in_section(content', section)
  /\ Step(name, result' # None, result' = None, next)
  /\ fs' = IF result' = None THEN fs
           ELSE [fs EXCEPT ![path] =
                   write_text(ReplaceValue(content', result'[2], result'[3], version))]
  /\ UNCHANGED <<argv, runNo, pep440_version, parsed, semver, branch, count, found, git>>

update_cargo_toml ==
  UpdateSection("update_cargo_toml", "Cargo.toml", <<"w", "o", "r", "k", "s", "p", "a", "c", "e",
            ".", "p", "a", "c", "k", "a", "g", "e">>, semver,
                "update_crate_deps loq_cli")

update_crate_deps(name, crate_path, next) ==
  /\ pc = name
  /\ content' = read_text(fs[crate_path])
  /\ LET subn == DepsSubn(content', semver)
     IN /\ count' = subn[2]
        /\ Step(name, count' # 0, count' = 0, next)
        /\ fs' = IF count' = 0 THEN fs ELSE [fs EXCEPT ![crate_path] = write_text(subn[1])]
  /\ UNCHANGED <<argv, runNo, pep440_version, parsed, semver, branch, result, found, git>>

update_crate_deps_cli ==
  update_crate_deps("update_crate_deps loq_cli", "crates/loq_cli/Cargo.toml",
                    "update_crate_deps loq_fs")

update_crate_deps_fs ==
  update_crate_deps("update_crate_deps loq_fs", "crates/loq_fs/Cargo.toml", "update_pyproject")

update_pyproject ==
  UpdateSection("update_pyproject", "pyproject.toml", <<"p", "r", "o", "j", "e", "c", "t">>,
            pep440_version,
                "update_readme")

update_readme ==
  /\ pc = "update_readme"
  /\ content' = read_text(fs["README.md"])
  /\ LET scan == ScanReadme(Split(content'), semver)
     IN /\ found' = scan[1]
        /\ Step("update_readme", found', ~found', "cargo update")
        /\ fs' = IF found' THEN [fs EXCEPT !["README.md"] = write_text(Join(scan[2]))] ELSE fs
  /\ UNCHANGED <<argv, runNo, pep440_version, parsed, semver, branch, result, count, git>>

cargo_update ==
  /\ pc = "cargo update"
  /\ \E returncode \in ReturnCodes :
       /\ Step("cargo update", returncode = 0, RunExits(returncode), "git add")
       /\ IF returncode = 0
          THEN \E lock \in LockOutcomes : fs' = [fs EXCEPT !["Cargo.lock"] = lock]
          ELSE UNCHANGED fs
  /\ UNCHANGED <<argv, runNo, pep440_version, locals, git>>

git_add ==
  /\ pc = "git add"
  /\ \E returncode \in ReturnCodes :
       /\ Step("git add", returncode = 0, RunExits(returncode), "git commit")
       /\ git' = IF returncode = 0 THEN [git EXCEPT !.index = fs] ELSE git
  /\ UNCHANGED <<argv, runNo, pep440_version, locals, fs>>

git_commit ==
  /\ pc = "git commit"
  /\ \E returncode \in CommitCodes :
       /\ Step("git commit", returncode = 0, RunExits(returncode), "git push")
       /\ git' = IF returncode = 0
                 THEN [git EXCEPT !.tree = git.index,
                                  !.log = Append(@, [message |-> PrepName(pep440_version),
                                                     branch |-> git.head, run |-> runNo])]
                 ELSE git
  /\ UNCHANGED <<argv, runNo, pep440_version, locals, fs>>

git_push ==
  /\ pc = "git push"
  /\ \E returncode \in ReturnCodes :
       /\ Step("git push", returncode = 0, RunExits(returncode), "gh pr create")
       /\ git' = IF returncode = 0
                 THEN [git EXCEPT !.pushed = Append(@, [branch |-> branch, run |-> runNo])]
                 ELSE git
  /\ UNCHANGED <<argv, runNo, pep440_version, locals, fs>>

\* The last step: main returns after it, and the process exits with status 0.
gh_pr_create ==
  /\ pc = "gh pr create"
  /\ \E returncode \in ReturnCodes :
       /\ trace' = Append(trace, [step |-> "gh pr create", ok |-> returncode = 0])
       /\ pc' = "exited"
       /\ exitCode' = IF RunExits(returncode) THEN 1 ELSE 0
       /\ git' = IF returncode = 0
                 THEN [git EXCEPT !.prs = Append(@, [title |-> PrepName(pep440_version),
                                                     body |-> <<"B", "u", "m", "p", "s", " ", "v",
                                                               "e", "r", "s", "i", "o", "n", " ", "t", "o", " ">> \o pep440_version,
                                                     run |-> runNo])]
                 ELSE git
  /\ UNCHANGED <<argv, runNo, pep440_version, locals, fs>>

\* The script is started again in the same working copy with the same arguments
\* (the __main__ guard), after a run that succeeded.
MaxRuns == 2

rerun ==
  /\ pc = "exited" /\ exitCode = 0 /\ runNo < MaxRuns
  /\ pc' = "start"
  /\ exitCode' = Running
  /\ runNo' = runNo + 1
  /\ trace' = << >>
  /\ pep440_version' = None
  /\ parsed' = None /\ semver' = None /\ branch' = None
  /\ content' = << >> /\ result' = None /\ count' = 0 /\ found' = FALSE
  /\ UNCHANGED <<argv, fs, git>>

--------------------------------------------------------------------------
(* Working copies. *)

\* main's calls, in the order of its code.
StepOrder ==
  <<"check_working_tree", "validate_version", "git checkout -b", "update_cargo_toml",
    "update_crate_deps loq_cli", "update_crate_deps loq_fs", "update_pyproject",
    "update_readme", "cargo update", "git add", "git commit", "git push", "gh pr create">>

StepIndex(name) == CHOOSE i \in 1..Len(StepOrder) : StepOrder[i] = name

\* The file a mutator step rewrites.
StepFile(k) ==
  CASE k = 4 -> "Cargo.toml"
    [] k = 5 -> "crates/loq_cli/Cargo.toml"
    [] k = 6 -> "crates/loq_fs/Cargo.toml"
    [] k = 7 -> "pyproject.toml"
    [] k = 8 -> "README.md"

CargoTomls ==
  {<<"[", "p", "a", "c", "k", "a", "g", "e", "]", "\n", "v", "e", "r", "s", "i", "o", "n", " ",
            "=", " ", "\"", "9", "\"", "\n", "[", "w", "o", "r", "k", "s", "p", "a", "c", "e", ".", "p", "a", "c", "k", "a", "g", "e", "]", "\n", "v", "e", "r", "s", "i", "o", "n", " ", "=", " ", "\"", "0", ".", "1", ".", "0", "\"", "\n">>,
   <<"[", "w", "o", "r", "k", "s", "p", "a", "c", "e", "]", "\n", "v", "e", "r", "s", "i", "o",
             "n", " ", "=", " ", "\"", "0", ".", "1", ".", "0", "\"", "\n">>}

CliTomls ==
  {<<"l", "o", "q", "_", "c", "o", "r", "e", " ", "=", " ", "{", " ", "p", "a", "t", "h", " ", "=",
            " ", "\"", ".", ".", "/", "l", "o", "q", "_", "c", "o", "r", "e", "\"", ",", " ", "v", "e", "r", "s", "i", "o", "n", " ", "=", " ", "\"", "0", ".", "1", ".", "0", "\"", " ", "}", "\n", "l", "o", "q", "_", "f", "s", " ", "=", " ", "{", " ", "p", "a", "t", "h", " ", "=", " ", "\"", ".", ".", "/", "l", "o", "q", "_", "f", "s", "\"", ",", " ", "v", "e", "r", "s", "i", "o", "n", " ", "=", " ", "\"", "0", ".", "1", ".", "0", "\"", " ", "}", "\n">>,
   <<"s", "e", "r", "d", "e", " ", "=", " ", "\"", "1", "\"", "\n">>}

FsTomls ==
  {<<"l", "o", "q", "_", "c", "o", "r", "e", " ", "=", " ", "{", " ", "p", "a", "t", "h", " ", "=",
            " ", "\"", ".", ".", "/", "l", "o", "q", "_", "c", "o", "r", "e", "\"", ",", " ", "v", "e", "r", "s", "i", "o", "n", " ", "=", " ", "\"", "0", ".", "1", ".", "0", "\"", " ", "}", "\n">>,
   <<"s", "e", "r", "d", "e", " ", "=", " ", "\"", "1", "\"", "\n">>}

Pyprojects ==
  {<<"[", "p", "r", "o", "j", "e", "c", "t", "]", "\n", "v", "e", "r", "s", "i", "o", "n", " ",
            "=", " ", "\"", "0", ".", "1", ".", "0", "\"", "\n", "[", "t", "o", "o", "l", ".", "x", "]", "\n", "v", "e", "r", "s", "i", "o", "n", " ", "=", " ", "\"", "9", "\"", "\n">>,
   <<"[", "p", "r", "o", "j", "e", "c", "t", "]", "\n", "n", "a", "m", "e", " ", "=", " ", "\"",
             "l", "o", "q", "\"", "\n">>}

Readmes ==
  {<<" ", " ", "-", " ", "r", "e", "p", "o", ":", " ", "h", "t", "t", "p", "s", ":", "/", "/", "g",
            "i", "t", "h", "u", "b", ".", "c", "o", "m", "/", "j", "a", "k", "e", "k", "a", "p", "l", "a", "n", "/", "l", "o", "q", "\n", " ", " ", " ", " ", "r", "e", "v", ":", " ", "v", "0", ".", "1", ".", "0", "\n">>,
   <<" ", " ", "-", " ", "r", "e", "p", "o", ":", " ", "h", "t", "t", "p", "s", ":", "/", "/", "g",
             "i", "t", "h", "u", "b", ".", "c", "o", "m", "/", "j", "a", "k", "e", "k", "a", "p", "l", "a", "n", "/", "l", "o", "q", "\n", " ", " ", " ", " ", "r", "e", "v", ":", " ", "0", ".", "1", ".", "0", "\n">>,
   <<"#", " ", "l", "o", "q", "\n">>}

\* A working copy in which every lookup of the script succeeds.
BaseFiles ==
  [f \in VERSION_FILES |->
     CASE f = "Cargo.toml" -> <<"[", "p", "a", "c", "k", "a", "g", "e", "]", "\n", "v", "e", "r",
               "s", "i", "o", "n", " ", "=", " ", "\"", "9", "\"", "\n", "[", "w", "o", "r", "k", "s", "p", "a", "c", "e", ".", "p", "a", "c", "k", "a", "g", "e", "]", "\n", "v", "e", "r", "s", "i", "o", "n", " ", "=", " ", "\"", "0", ".", "1", ".", "0", "\"", "\n">>
       [] f = "Cargo.lock" -> <<"#", " ", "l", "o", "c", "k", " ", "0", ".", "1", ".", "0", "\n">>
       [] f = "crates/loq_cli/Cargo.toml" -> <<"l", "o", "q", "_", "c", "o", "r", "e", " ", "=",
                 " ", "{", " ", "p", "a", "t", "h", " ", "=", " ", "\"", ".", ".", "/", "l", "o", "q", "_", "c", "o", "r", "e", "\"", ",", " ", "v", "e", "r", "s", "i", "o", "n", " ", "=", " ", "\"", "0", ".", "1", ".", "0", "\"", " ", "}", "\n", "l", "o", "q", "_", "f", "s", " ", "=", " ", "{", " ", "p", "a", "t", "h", " ", "=", " ", "\"", ".", ".", "/", "l", "o", "q", "_", "f", "s", "\"", ",", " ", "v", "e", "r", "s", "i", "o", "n", " ", "=", " ", "\"", "0", ".", "1", ".", "0", "\"", " ", "}", "\n">>
       [] f = "crates/loq_fs/Cargo.toml" -> <<"l", "o", "q", "_", "c", "o", "r", "e", " ", "=",
                 " ", "{", " ", "p", "a", "t", "h", " ", "=", " ", "\"", ".", ".", "/", "l", "o", "q", "_", "c", "o", "r", "e", "\"", ",", " ", "v", "e", "r", "s", "i", "o", "n", " ", "=", " ", "\"", "0", ".", "1", ".", "0", "\"", " ", "}", "\n">>
       [] f = "pyproject.toml" -> <<"[", "p", "r", "o", "j", "e", "c", "t", "]", "\n", "v", "e",
                 "r", "s", "i", "o", "n", " ", "=", " ", "\"", "0", ".", "1", ".", "0", "\"", "\n", "[", "t", "o", "o", "l", ".", "x", "]", "\n", "v", "e", "r", "s", "i", "o", "n", " ", "=", " ", "\"", "9", "\"", "\n">>
       [] f = "README.md" -> <<" ", " ", "-", " ", "r", "e", "p", "o", ":", " ", "h", "t", "t",
                 "p", "s", ":", "/", "/", "g", "i", "t", "h", "u", "b", ".", "c", "o", "m", "/", "j", "a", "k", "e", "k", "a", "p", "l", "a", "n", "/", "l", "o", "q", "\n", " ", " ", " ", " ", "r", "e", "v", ":", " ", "v", "0", ".", "1", ".", "0", "\n">>]

\* The versions given to complete runs: a prerelease, a stable one, an invalid one.
MainVersions == {<<"0", ".", "1", ".", "0", "a", "7">>, <<"1", ".", "0", ".", "0">>, <<"0", ".",
          "1", ".", "0", "a">>}

\* A repository on branch main whose last commit holds `files`.
FreshGit(files, untracked) ==
  [branches |-> {<<"m", "a", "i", "n">>}, head |-> <<"m", "a", "i", "n">>, tree |-> files,
            index |-> files,
   log |-> << >>, pushed |-> << >>, prs |-> << >>, untracked |-> untracked]

\* The state in which the script starts.
StartState(args, files, untracked) ==
  /\ argv = args
  /\ pc = "start"
  /\ exitCode = Running
  /\ runNo = 1
  /\ trace = << >>
  /\ pep440_version = None
  /\ parsed = None /\ semver = None /\ branch = None
  /\ content = << >> /\ result = None /\ count = 0 /\ found = FALSE
  /\ fs = files
  /\ git = FreshGit(files, untracked)

Init ==
  \E args \in {<< >>} \cup {<<v>> : v \in MainVersions},
     cargo \in CargoTomls, cli \in CliTomls, lfs \in FsTomls,
     py \in Pyprojects, readme \in Readmes, untracked \in BOOLEAN :
    StartState(args,
               [BaseFiles EXCEPT !["Cargo.toml"] = cargo,
                                 !["crates/loq_cli/Cargo.toml"] = cli,
                                 !["crates/loq_fs/Cargo.toml"] = lfs,
                                 !["pyproject.toml"] = py,
                                 !["README.md"] = readme],
               untracked)

Next ==
  \/ main_start
  \/ check_working_tree
  \/ validate_version
  \/ create_branch
  \/ update_cargo_toml
  \/ update_crate_deps_cli
  \/ update_crate_deps_fs
  \/ update_pyproject
  \/ update_readme
  \/ cargo_update
  \/ git_add
  \/ git_commit
  \/ git_push
  \/ gh_pr_create
  \/ rerun

Spec == Init /\ [][Next]_vars

--------------------------------------------------------------------------
(* One step of main applied to many inputs: the state in which main reaches *)
(* the step, every earlier step having succeeded on `files`.                *)

\* What update_cargo_toml or update_pyproject writes to a file whose lookup succeeds.
WrittenSection(bytes, section, version) ==
  LET c == read_text(bytes)
      r == find_version_in_section(c, section)
  IN write_text(ReplaceValue(c, r[2], r[3], version))

\* What update_crate_deps writes.
WrittenDeps(bytes, version) == write_text(DepsSubn(read_text(bytes), version)[1])

\* What the mutators before step number k have written, on files whose lookups succeed.
FilesAt(k, files, version) ==
  [f \in VERSION_FILES |->
     IF f = "Cargo.toml" /\ k > 4
     THEN WrittenSection(files[f], <<"w", "o", "r", "k", "s", "p", "a", "c", "e", ".", "p", "a",
               "c", "k", "a", "g", "e">>, pep440_to_semver(version))
     ELSE IF f = "crates/loq_cli/Cargo.toml" /\ k > 5
     THEN WrittenDeps(files[f], pep440_to_semver(version))
     ELSE IF f = "crates/loq_fs/Cargo.toml" /\ k > 6
     THEN WrittenDeps(files[f], pep440_to_semver(version))
     ELSE IF f = "pyproject.toml" /\ k > 7
     THEN WrittenSection(files[f], <<"p", "r", "o", "j", "e", "c", "t">>, version)
     ELSE files[f]]

\* The version of the runs of one step: its dashed form differs from it.
StepVersion == <<"0", ".", "2", ".", "0", "a", "1">>

\* The files when main reaches step number k of a run with StepVersion on BaseFiles.
StepFiles == [k \in 1..Len(StepOrder) |-> FilesAt(k, BaseFiles, StepVersion)]

\* main is about to run step `name` of a run with `version` (StepVersion when the step
\* comes after validate_version) in a working copy that held BaseFiles, but `text` in
\* the file `path`, when the run began.
MidRun(name, version, path, text) ==
  LET k == StepIndex(name)
      files == [BaseFiles EXCEPT ![path] = text]
  IN /\ argv = <<version>>
     /\ pc = name
     /\ exitCode = Running
     /\ runNo = 1
     /\ trace = [i \in 1..(k - 1) |-> [step |-> StepOrder[i], ok |-> TRUE]]
     /\ pep440_version = version
     /\ parsed = IF k > 2 THEN parse_pep440(version) ELSE None
     /\ semver = IF k > 2 THEN pep440_to_semver(version) ELSE None
     /\ branch = IF k > 3 THEN PrepName(version) ELSE None
     /\ content = << >> /\ result = None /\ count = 0 /\ found = FALSE
     /\ fs = [StepFiles[k] EXCEPT ![path] = text]
     /\ git = IF k > 3
              THEN [FreshGit(files, FALSE) EXCEPT !.branches = @ \cup {PrepName(version)},
                                                  !.head = PrepName(version)]
              ELSE FreshGit(files, FALSE)

\* All texts made of at most n of the given pieces.
TextsOf(pieces, n) == {Concat(p) : p \in UNION {[1..m -> pieces] : m \in 0..n}}

\* --- validate_version on many version strings ---
MaxVersionPieces == 4

VersionPieces ==
  {<<"1", ".", "0", ".", "0">>, <<"1", ".", "0">>, <<".", "0">>, <<"a">>, <<"b">>, <<"r", "c">>,
            <<"0">>, <<"1">>, <<"v">>, <<"\n">>}

InitVersion ==
  \E v \in TextsOf(VersionPieces, MaxVersionPieces) : MidRun("validate_version", v, "README.md", BaseFiles["README.md"])

NextVersion == validate_version

SpecVersion == InitVersion /\ [][NextVersion]_vars

\* --- update_cargo_toml and update_pyproject on many manifests ---
MaxTomlLines == 3

TomlLines ==
  {<<"[", "w", "o", "r", "k", "s", "p", "a", "c", "e", ".", "p", "a", "c", "k", "a", "g", "e", "]",
            "\n">>, <<"[", "p", "r", "o", "j", "e", "c", "t", "]", "\n">>, <<"[", "t", "o", "o",
                      "l", ".", "p", "r", "o", "j", "e", "c", "t", "]", "\n", "v", "e", "r", "s",
                                "i", "o", "n", " ", "=", " ", "\"", "7", "\"", "\n">>, <<"[", "p",
                                          "r", "o", "j", "e", "c", "t", "]">>,
   <<"[", "[", "b", "i", "n", "]", "]", "\n">>,
   <<"v", "e", "r", "s", "i", "o", "n", " ", "=", " ", "\"", "0", ".", "1", ".", "0", "\"", "\n">>,
             <<"v", "e", "r", "s", "i", "o", "n", " ", "=", " ", "\"", "9", "\"", "\r", "\n">>,
                       <<"v", "e", "r", "s", "i", "o", "n", " ", "=", " ", "\"", "\n">>, <<" ",
                                 "v", "e", "r", "s", "i", "o", "n", " ", "=", " ", "\"", "3", "\"", "\n">>}

InitToml ==
  \E t \in TextsOf(TomlLines, MaxTomlLines) :
    \/ MidRun("update_cargo_toml", StepVersion, "Cargo.toml", t)
    \/ MidRun("update_pyproject", StepVersion, "pyproject.toml", t)

NextToml == update_cargo_toml \/ update_pyproject

SpecToml == InitToml /\ [][NextToml]_vars

\* --- update_crate_deps on many manifests ---
MaxDepLines == 3

DepLines ==
  {<<"l", "o", "q", "_", "c", "o", "r", "e", " ", "=", " ", "{", " ", "p", "a", "t", "h", " ", "=",
            " ", "\"", ".", ".", "/", "l", "o", "q", "_", "c", "o", "r", "e", "\"", ",", " ", "v", "e", "r", "s", "i", "o", "n", " ", "=", " ", "\"", "0", ".", "1", ".", "0", "\"", " ", "}", "\n">>,
   <<"l", "o", "q", "_", "f", "s", " ", "=", " ", "{", " ", "p", "a", "t", "h", " ", "=", " ",
             "\"", ".", ".", "/", "l", "o", "q", "_", "f", "s", "\"", ",", " ", "v", "e", "r", "s", "i", "o", "n", " ", "=", " ", "\"", "0", ".", "1", ".", "0", "\"", " ", "}", "\r", "\n">>,
   <<"l", "o", "q", "_", "c", "l", "i", " ", "=", " ", "{", " ", "p", "a", "t", "h", " ", "=", " ",
             "\"", ".", ".", "/", "l", "o", "q", "_", "c", "l", "i", "\"", ",", " ", "v", "e", "r", "s", "i", "o", "n", " ", "=", " ", "\"", "0", ".", "1", ".", "0", "\"", " ", "}", "\n">>,
   <<"l", "o", "q", "_", "c", "o", "r", "e", " ", "=", " ", "{", " ", "v", "e", "r", "s", "i", "o",
             "n", " ", "=", " ", "\"", "0", ".", "1", ".", "0", "\"", ",", " ", "p", "a", "t", "h", " ", "=", " ", "\"", ".", ".", "/", "l", "o", "q", "_", "c", "o", "r", "e", "\"", " ", "}", "\n">>,
   <<"l", "o", "q", "_", "c", "o", "r", "e", " ", "=", " ", "{", " ", "p", "a", "t", "h", " ", "=",
             " ", "\"", "\"", ",", " ", "v", "e", "r", "s", "i", "o", "n", " ", "=", " ", "\"", "0", ".", "1", ".", "0", "\"", " ", "}", "\n">>,
   <<"s", "e", "r", "d", "e", " ", "=", " ", "\"", "1", "\"", "\n">>,
   <<"m", "y", "_">>}

InitDeps ==
  \E t \in TextsOf(DepLines, MaxDepLines) :
    \/ MidRun("update_crate_deps loq_cli", StepVersion, "crates/loq_cli/Cargo.toml", t)
    \/ MidRun("update_crate_deps loq_fs", StepVersion, "crates/loq_fs/Cargo.toml", t)

NextDeps == update_crate_deps_cli \/ update_crate_deps_fs

SpecDeps == InitDeps /\ [][NextDeps]_vars

\* --- update_readme on many documents ---
MaxReadmeLines == 4

ReadmeLines ==
  {<<" ", " ", "-", " ", "r", "e", "p", "o", ":", " ", "h", "t", "t", "p", "s", ":", "/", "/", "g",
            "i", "t", "h", "u", "b", ".", "c", "o", "m", "/", "j", "a", "k", "e", "k", "a", "p", "l", "a", "n", "/", "l", "o", "q", "\n">>,
   <<" ", " ", " ", " ", "r", "e", "v", ":", " ", "v", "0", ".", "1", ".", "0", "\n">>,
   <<" ", " ", " ", " ", "r", "e", "v", ":", " ", "0", ".", "1", ".", "0", "\n">>,
   <<" ", " ", "-", " ", "r", "e", "p", "o", ":", " ", "h", "t", "t", "p", "s", ":", "/", "/", "g",
             "i", "t", "h", "u", "b", ".", "c", "o", "m", "/", "x", "/", "y", "\n">>,
   <<Backtick, Backtick, Backtick, "\n">>,
   <<"\n">>,
   <<"\n", "\n", "\n">>}

InitReadme ==
  \E t \in TextsOf(ReadmeLines, MaxReadmeLines) :
    MidRun("update_readme", StepVersion, "README.md", t)

NextReadme == update_readme

SpecReadme == InitReadme /\ [][NextReadme]_vars

--------------------------------------------------------------------------
(* Properties. *)

\* The step this run executed last, and whether the run has executed `name`.
LastStep == trace[Len(trace)]

Ran(name) == \E i \in 1..Len(trace) : trace[i].step = name

\* C1: main runs its steps in the fixed order; a step starts only if every earlier
\* step succeeded; the first failing step ends the run with exit code 1 and nothing
\* runs after it; the run ends with exit code 0 only if all thirteen steps succeeded.
C1_StepsInOrderAndGated ==
  /\ Len(trace) <= Len(StepOrder)
  /\ \A i \in 1..Len(trace) : trace[i].step = StepOrder[i]
  /\ \A i \in 1..(Len(trace) - 1) : trace[i].ok
  /\ \A i \in 1..Len(trace) : ~trace[i].ok => (pc = "exited" /\ exitCode = 1)
  /\ exitCode = 0 => (Len(trace) = Len(StepOrder) /\ \A i \in 1..Len(trace) : trace[i].ok)
  /\ (pc = "exited") <=> (exitCode # Running)
  /\ exitCode \in {Running, 0, 1}

\* C1's case: cargo update returned non-zero after the five mutators had run.
C1_Witness ==
  /\ pc = "exited" /\ exitCode = 1
  /\ Len(trace) = 9 /\ LastStep.step = "cargo update" /\ ~LastStep.ok

\* The two accepted shapes of a version string, stated on the string itself.
AllDigits(s) == s # << >> /\ \A i \in 1..Len(s) : s[i] \in Digits

IsStableShape(v) ==
  \E a, b \in 1..Len(v) :
    /\ a < b /\ v[a] = "." /\ v[b] = "."
    /\ AllDigits(SubSeq(v, 1, a - 1))
    /\ AllDigits(SubSeq(v, a + 1, b - 1))
    /\ AllDigits(SubSeq(v, b + 1, Len(v)))

Markers == {<<"a">>, <<"b">>, <<"r", "c">>}

\* The ways to read v as base + marker + digits: <<length of the base, marker>>.
PrereleaseSplits(v) ==
  {s \in (1..Len(v)) \X Markers :
     /\ IsStableShape(SubSeq(v, 1, s[1]))
     /\ s[1] + Len(s[2]) <= Len(v)
     /\ SubSeq(v, s[1] + 1, s[1] + Len(s[2])) = s[2]
     /\ AllDigits(SubSeq(v, s[1] + Len(s[2]) + 1, Len(v)))}

IsPrereleaseShape(v) == PrereleaseSplits(v) # {}

Validated == Len(trace) = 2 /\ LastStep.step = "validate_version"

\* C2: parse_pep440 accepts exactly the two shapes; for every other string it returns
\* ("", None, None), pep440_to_semver returns "", and validate_version exits with 1.
C2_OnlyTwoShapesAccepted ==
  Validated =>
    IF IsStableShape(pep440_version) \/ IsPrereleaseShape(pep440_version)
    THEN parsed[1] # <<>> /\ semver # <<>> /\ exitCode = Running
    ELSE parsed = <<<<>>, None, None>> /\ semver = <<>> /\ exitCode = 1

\* The dashed name of a marker.
DashedName(k) == CASE k = <<"a">> -> <<"a", "l", "p", "h", "a">> [] k = <<"b">> -> <<"b", "e", "t",
          "a">> [] k = <<"r", "c">> -> <<"r", "c">>

\* The digits N without their leading zeros.
WithoutLeadingZeros(digits) ==
  LET nz == {i \in 1..Len(digits) : digits[i] # "0"}
  IN IF nz = {} THEN <<"0">> ELSE SubSeq(digits, Min(nz), Len(digits))

\* The dashed form of a prerelease version whose number is written by Number(N).
DashedWith(v, Number(_)) ==
  LET s == CHOOSE x \in PrereleaseSplits(v) : TRUE
      base == SubSeq(v, 1, s[1])
      N == SubSeq(v, s[1] + Len(s[2]) + 1, Len(v))
  IN base \o <<"-">> \o DashedName(s[2]) \o <<".">> \o Number(N)

SameDigits(N) == N

\* C3, as claimed: a stable input is returned unchanged and a prerelease input
\* base + k + N is returned as base-name(k).N with the very digits N of the input.
C3_Original ==
  Validated =>
    /\ IsStableShape(pep440_version) => semver = pep440_version
    /\ IsPrereleaseShape(pep440_version) => semver = DashedWith(pep440_version, SameDigits)

\* C3, amended: a stable input is returned unchanged and a prerelease input
\* base + k + N is returned as base-name(k).N', N' being N without its leading zeros
\* (N itself when it has none), so only leading zeros of N are lost.
C3_DashedFormUpToLeadingZeros ==
  Validated =>
    /\ IsStableShape(pep440_version) => semver = pep440_version
    /\ IsPrereleaseShape(pep440_version) =>
         semver = DashedWith(pep440_version, WithoutLeadingZeros)

\* C3's case: a beta prerelease whose number has a leading zero has been converted.
C3_Witness ==
  /\ Validated
  /\ pep440_version = <<"1", ".", "0", ".", "0", "b", "0", "1">>
  /\ semver = <<"1", ".", "0", ".", "0", "-", "b", "e", "t", "a", ".", "1">>

--------------------------------------------------------------------------
(* The section-scoped mutators, stated on the text. *)

\* The mutator that ran last, its file and its section.
SectionStepDone ==
  /\ trace # << >>
  /\ LastStep.step \in {"update_cargo_toml", "update_pyproject"}
  /\ Len(trace) = StepIndex(LastStep.step)

SectionFile == IF LastStep.step = "update_cargo_toml" THEN "Cargo.toml" ELSE "pyproject.toml"

SectionName == IF LastStep.step = "update_cargo_toml" THEN <<"w", "o", "r", "k", "s", "p", "a",
          "c", "e", ".", "p", "a", "c", "k", "a", "g", "e">> ELSE <<"p", "r", "o", "j", "e", "c",
                    "t">>

SectionVersion == IF LastStep.step = "update_cargo_toml" THEN semver ELSE pep440_version

\* The offsets at which a line of text starts, and where the line starting at k ends.
LineStarts(text) == {k \in 0..Len(text) : k = 0 \/ text[k] = "\n"}

LineEnd(text, k) == Min({j \in k..Len(text) : j = Len(text) \/ text[j + 1] = "\n"})

\* The header lines of the section: full lines equal to [section].
SectionHeaders(text, section) ==
  {k \in LineStarts(text) :
     SubSeq(text, k + 1, LineEnd(text, k)) = <<"[">> \o section \o <<"]">>}

\* Where the body of the section with header at h ends: at the next line that
\* begins with "[", or at the end of the text.
BodyEnd(text, h) ==
  LET later == {k \in LineStarts(text) : k > h /\ k < Len(text) /\ text[k + 1] = "["}
  IN IF later = {} THEN Len(text) ELSE Min(later)

\* A line of the form version = "..." starts at k: the key at the start of the
\* line, then on the same line a non-empty value and its closing quote, before `limit`.
IsVersionLine(text, k, limit) ==
  /\ k \in LineStarts(text)
  /\ k + 11 <= Len(text)
  /\ SubSeq(text, k + 1, k + 11) = <<"v", "e", "r", "s", "i", "o", "n", " ", "=", " ", "\"">>
  /\ \E e \in (k + 12)..(limit - 1) :
       /\ text[e + 1] = "\""
       /\ \A j \in (k + 12)..e : text[j] \notin {"\"", "\n"}

\* C4: when find_version_in_section returns (value, start, end), [start, end) lies in
\* the body of the section whose header is a full line equal to [section], after the
\* header line and before the next line beginning with "["; text[start:end] is the
\* value in double quotes; and the value is that of the first line version = "..."
\* of that body.
\* No other section of the text, whatever its name and place, changes that.
C4_LookupConfinedToSection ==
  (SectionStepDone /\ result # None) =>
    LET text == content
        value == result[1]
        start == result[2]
        end == result[3]
        headers == SectionHeaders(text, SectionName)
        h == Min(headers)
        limit == BodyEnd(text, h)
        key == start - 10
    IN /\ headers # {}
       /\ LineEnd(text, h) < key /\ end <= limit
       /\ SubSeq(text, start + 1, end) = <<"\"">> \o value \o <<"\"">>
       /\ value # <<>> /\ \A i \in 1..Len(value) : value[i] \notin {"\"", "\n"}
       /\ IsVersionLine(text, key, limit)
       /\ \A k \in (h + 1)..(key - 1) : ~IsVersionLine(text, k, limit)

\* C9: a successful section-scoped mutator replaces exactly the characters from the
\* opening quote through the closing quote of the located value: the file before
\* start and from end onward is byte for byte what it was.
C9_OnlyTheValueIsReplaced ==
  (SectionStepDone /\ LastStep.ok) =>
    LET old == git.tree[SectionFile]
        new == fs[SectionFile]
        start == result[2]
        end == result[3]
        written == <<"\"">> \o SectionVersion \o <<"\"">>
    IN /\ Slice(new, 0, start) = Slice(old, 0, start)
       /\ Slice(new, start, start + Len(written)) = written
       /\ SliceFrom(new, start + Len(written)) = SliceFrom(old, end)

--------------------------------------------------------------------------
(* The dependency-reference updater. *)

DepsStepDone ==
  /\ trace # << >>
  /\ LastStep.step \in {"update_crate_deps loq_cli", "update_crate_deps loq_fs"}
  /\ Len(trace) = StepIndex(LastStep.step)

DepsFile ==
  IF LastStep.step = "update_crate_deps loq_cli" THEN "crates/loq_cli/Cargo.toml"
  ELSE "crates/loq_fs/Cargo.toml"

\* The offsets of the file at which a declaration
\* loq_core|loq_fs = { path = "...", version = "..." } starts.
DepOccurrences(bytes) == {k \in 0..Len(bytes) : MatchDepAt(bytes, k) # None}

\* C5: update_crate_deps rewrites the version value of every occurrence of such a
\* declaration to the new version and leaves all other text of the file unchanged;
\* with no occurrence it exits with code 1 and does not write the file.
C5_EveryDeclarationRewritten ==
  DepsStepDone =>
    LET old == git.tree[DepsFile]
        new == fs[DepsFile]
    IN IF DepOccurrences(old) = {}
       THEN ~LastStep.ok /\ exitCode = 1 /\ new = old
       ELSE /\ LastStep.ok /\ exitCode = Running
            /\ new = DepsSubn(old, semver)[1]

--------------------------------------------------------------------------
(* The documentation pin updater. *)

ReadmeStepDone ==
  /\ Len(trace) = StepIndex("update_readme")
  /\ LastStep.step = "update_readme"

\* The lines of a document that hold a rev: pin, as update_readme looks for one:
\* within the four lines after the first line that holds the repository marker.
PinLines(lines) ==
  LET markers == {i \in 1..Len(lines) : Contains(lines[i], RepoMarker)}
  IN IF markers = {} THEN {}
     ELSE {j \in (Min(markers) + 1)..(Min(markers) + 4) :
             j <= Len(lines) /\ Contains(lines[j], <<"r", "e", "v", ":">>)}

\* C6: whenever update_readme completes without error, the rev: line after the
\* marker reads rev: v + dashed version; otherwise it exits with code 1 and does not
\* write README.md.  It never reports success with the pin at its old value.
C6_SuccessMeansPinRewritten ==
  ReadmeStepDone =>
    LET old == git.tree["README.md"]
        lines == Split(fs["README.md"])
    IN IF LastStep.ok
       THEN /\ PinLines(lines) # {}
            /\ Contains(lines[Min(PinLines(lines))], <<"r", "e", "v", ":", " ", "v">> \o semver)
            /\ \A j \in 1..(Min(PinLines(lines)) - 1) :
                 Contains(lines[j], RepoMarker)
                   => \A i \in (j + 1)..(Min(PinLines(lines)) - 1) :
                        ~Contains(lines[i], <<"r", "e", "p", "o",
                                  ":">>) /\ Strip(lines[i]) # <<Backtick, Backtick, Backtick>>
       ELSE exitCode = 1 /\ fs["README.md"] = old

--------------------------------------------------------------------------
(* Whole runs: what they leave behind. *)

\* update_readme's write, on a document whose pin is found.
WrittenReadme(bytes, version) ==
  write_text(Join(ScanReadme(Split(read_text(bytes)), version)[2]))

\* The entries of a list of the repository that this run added.
OfThisRun(entries) == {i \in 1..Len(entries) : entries[i].run = runNo}

\* A run that has ended with exit code 1 at a step after branch creation.
FailedAfterBranch ==
  /\ pc = "exited" /\ exitCode = 1
  /\ Len(trace) > StepIndex("git checkout -b")

\* The version value of the dependency declaration matched at offset k.
DepVersion(text, k) ==
  LET m == MatchDepAt(text, k) IN Slice(text, m[1] + 1, m[2] - 1)

\* C7 as stated: a second run with the same version fails with exit code 1 at the
\* working-tree check or at a mutator's lookup.
C7_Original ==
  (runNo = 2 /\ pc = "exited") =>
    /\ exitCode = 1
    /\ LastStep.step \in {"check_working_tree", "update_cargo_toml",
                          "update_crate_deps loq_cli", "update_crate_deps loq_fs",
                          "update_pyproject", "update_readme"}

\* C7: a second run with the same version, after a first run that succeeded, never
\* succeeds and re-applies nothing: it finds the tree clean and the version valid,
\* and ends with exit code 1 at branch creation, git checkout -b refusing the name
\* that exists (or at the working-tree check, only when git status itself fails);
\* no mutator runs, and no file, commit, push or pull request is added.
C7_SecondRunStopsAtBranchCreation ==
  runNo >= 2 =>
    /\ exitCode # 0
    /\ StatusOutput = <<>>
    /\ PrepName(argv[1]) \in git.branches
    /\ \A i \in 1..Len(trace) :
         /\ trace[i].step = StepOrder[i]
         /\ i <= StepIndex("git checkout -b")
         /\ trace[i].step = "validate_version" => trace[i].ok
         /\ trace[i].step = "git checkout -b" => ~trace[i].ok
    /\ pc = "exited" =>
         /\ exitCode = 1
         /\ LastStep.step \in {"check_working_tree", "git checkout -b"}
    /\ fs = git.tree
    /\ Len(git.log) = 1 /\ Len(git.pushed) = 1 /\ Len(git.prs) = 1

\* C7's case: the second run has passed the tree check and the validation and has
\* ended at branch creation.
C7_Witness ==
  /\ runNo = 2 /\ pc = "exited" /\ exitCode = 1
  /\ Len(trace) = 3
  /\ trace[1].ok /\ trace[2].ok
  /\ LastStep = [step |-> "git checkout -b", ok |-> FALSE]

\* C8: after a fully successful run with version V and dashed form S, the
\* [workspace.package] version of Cargo.toml is S, every loq_core/loq_fs dependency
\* version of the two crate manifests is S, the [project] version of pyproject.toml
\* is V, the README pin reads rev: vS, the branch, the commit message and the pull
\* request title are prep-V, and the pull request body is Bumps version to V.
C8_SuccessfulRunLeavesEverythingAtTheVersion ==
  (pc = "exited" /\ exitCode = 0) =>
    LET V == argv[1]
        S == pep440_to_semver(V)
        cargo == find_version_in_section(fs["Cargo.toml"], <<"w", "o", "r", "k", "s", "p", "a",
                  "c", "e", ".", "p", "a", "c", "k", "a", "g", "e">>)
        py == find_version_in_section(fs["pyproject.toml"], <<"p", "r", "o", "j", "e", "c", "t">>)
        lines == Split(fs["README.md"])
    IN /\ cargo # None /\ cargo[1] = S
       /\ \A path \in {"crates/loq_cli/Cargo.toml", "crates/loq_fs/Cargo.toml"} :
            /\ DepOccurrences(fs[path]) # {}
            /\ \A k \in DepOccurrences(fs[path]) : DepVersion(fs[path], k) = S
       /\ py # None /\ py[1] = V
       /\ PinLines(lines) # {}
       /\ Contains(lines[Min(PinLines(lines))], <<"r", "e", "v", ":", " ", "v">> \o S)
       /\ branch = <<"p", "r", "e", "p", "-">> \o V /\ git.head = branch
       /\ git.log[Len(git.log)].message = <<"p", "r", "e", "p", "-">> \o V
       /\ git.prs[Len(git.prs)].title = <<"p", "r", "e", "p", "-">> \o V
       /\ git.prs[Len(git.prs)].body = <<"B", "u", "m", "p", "s", " ", "v", "e", "r", "s", "i",
                 "o", "n", " ", "t", "o", " ">> \o V

\* What a failed run leaves checked out and in the files.
NothingRolledBack ==
  LET k == Len(trace)
      written == FilesAt(k, git.tree, pep440_version)
  IN /\ git.head = branch /\ branch = PrepName(pep440_version)
     /\ k < StepIndex("git commit") =>
          \A f \in VERSION_FILES :
            IF f = "README.md"
            THEN fs[f] = IF k > StepIndex("update_readme")
                         THEN WrittenReadme(git.tree[f], semver) ELSE git.tree[f]
            ELSE IF f = "Cargo.lock"
            THEN fs[f] \in {git.tree[f], <<"#", " ", "l", "o", "c", "k",
                      " ">> \o semver \o <<"\n">>}
                 /\ (k <= StepIndex("cargo update") => fs[f] = git.tree[f])
            ELSE fs[f] = written[f]
     /\ k <= StepIndex("update_readme") => fs[StepFile(k)] = git.tree[StepFile(k)]

\* C10 as stated: when a step after branch creation fails, the branch stays checked
\* out, the files keep what was written, and no commit, push or pull request has
\* been made for that run.
C10_Original ==
  FailedAfterBranch =>
    /\ NothingRolledBack
    /\ OfThisRun(git.log) = {} /\ OfThisRun(git.pushed) = {} /\ OfThisRun(git.prs) = {}

\* C10: when a step after branch creation fails, the run stops with the new branch
\* checked out, every file rewritten by an earlier mutator keeps its new content and
\* the file of the mutator whose lookup failed is as it was; the commit of the run
\* exists exactly when the failing step is git push or gh pr create, the push exactly
\* when it is gh pr create, and the run has made no pull request.
C10_NothingRolledBackOrRetried ==
  FailedAfterBranch =>
    /\ NothingRolledBack
    /\ \A i \in 1..Len(trace) : trace[i].step = StepOrder[i]
    /\ OfThisRun(git.log) # {} <=> Len(trace) > StepIndex("git commit")
    /\ Len(trace) > StepIndex("git commit") => fs = git.tree
    /\ OfThisRun(git.pushed) # {} <=> Len(trace) > StepIndex("git push")
    /\ OfThisRun(git.prs) = {}

\* C10's case: update_pyproject's lookup has failed after the three manifests were
\* rewritten.
C10_Witness ==
  /\ FailedAfterBranch
  /\ LastStep = [step |-> "update_pyproject", ok |-> FALSE]
  /\ fs["Cargo.toml"] # git.tree["Cargo.toml"]
  /\ fs["crates/loq_cli/Cargo.toml"] # git.tree["crates/loq_cli/Cargo.toml"]
  /\ fs["pyproject.toml"] = git.tree["pyproject.toml"]

============================================================================
